---- MODULE Spec2Model ----
(***************************************************************************)
(* Model of utils/imagelist2lmdb.py: the manifest loader ImageListRaw, the *)
(* order-preserving loader CustomRawLoader (a torch DataLoader with        *)
(* batch_size 1, a sequential sampler and an identity collate_fn) and the  *)
(* batched store writer list2lmdb.                                         *)
(*                                                                         *)
(* Text (paths, keys) is a sequence of one-character strings; a manifest   *)
(* row is <<path, col1, col2, col3, col4>>; the store is a function from   *)
(* keys to encoded values.                                                 *)
(***************************************************************************)
EXTENDS Integers, Sequences, FiniteSets, TLC

\* ------------------------------------------------------------------ bounds
MaxRows == 2
MaxWorkers == 2
MaxWriteFreq == 2
\* Length of the one long manifest (keys of two digits).
LongLen == 11
\* Length of the manifest of the write-frequency scenario.
ScenarioLen == 5

\* ------------------------------------------------------- program constants
\* float("Inf"): a label is never above it (see FilterMaxClass).
Inf == -1

AttributeNames == {"race", "gender", "age", "recognition"}

ATTRIBUTES == [race |-> 1, gender |-> 2, age |-> 3, recognition |-> 1]

\* Mutant of MAX_CLASS: no upper bound for age.
MaxClassAgeOpen == [race |-> 4, gender |-> 1, age |-> Inf, recognition |-> Inf]

MAX_CLASS == [race |-> 4, gender |-> 1, age |-> 100, recognition |-> Inf]

\* DataLoader's default prefetch_factor.
PrefetchFactor == 2

\* ------------------------------------------------------------ text helpers
Digit(d) == CASE d = 0 -> "0" [] d = 1 -> "1" [] d = 2 -> "2" [] d = 3 -> "3"
              [] d = 4 -> "4" [] d = 5 -> "5" [] d = 6 -> "6" [] d = 7 -> "7"
              [] d = 8 -> "8" [] d = 9 -> "9"

RECURSIVE FormatInt(_)
\* "{}".format(n).encode("ascii") for n >= 0: the decimal digits of n.
FormatInt(n) == IF n < 10 THEN <<Digit(n)>>
                ELSE FormatInt(n \div 10) \o <<Digit(n % 10)>>

\* s[:-4]
DropLast4(s) == IF Len(s) <= 4 THEN <<>> ELSE SubSeq(s, 1, Len(s) - 4)

\* os.path.join(a, b) on POSIX, two components.
PathJoin(a, b) ==
    IF Len(b) > 0 /\ b[1] = "/" THEN b
    ELSE IF Len(a) = 0 \/ a[Len(a)] = "/" THEN a \o b
    ELSE a \o <<"/">> \o b

MaskSuffix == <<"_", "m", "a", "s", "k", ".", "p", "n", "g">>

\* image_names[image_names[:, attribute].astype("int") >= 0]
FilterNonNegative(image_names, attribute) ==
    SelectSeq(image_names, LAMBDA row : row[attribute + 1] >= 0)

\* Mutant of FilterMaxClass: the upper range check is left out.
FilterMaxClassOff(image_names, attribute, max_class) == image_names

\* image_names[image_names[:, attribute].astype("int") <= max_class]
FilterMaxClass(image_names, attribute, max_class) ==
    SelectSeq(image_names,
              LAMBDA row : max_class = Inf \/ row[attribute + 1] <= max_class)

\* The rows ImageListRaw.__init__ keeps for an attribute.
Filtered(image_names, attribute_name) ==
    FilterMaxClass(FilterNonNegative(image_names, ATTRIBUTES[attribute_name]),
                   ATTRIBUTES[attribute_name], MAX_CLASS[attribute_name])

\* image_names[:, c]
Column(image_names, c) == [i \in 1..Len(image_names) |-> image_names[i][c + 1]]

RECURSIVE SeqMax(_)
\* np.max of an array.  On a zero-size array np.max raises (MaxRaises) and
\* returns nothing; the 0 here stands for no value and is never stored.
SeqMax(s) == IF s = <<>> THEN 0
             ELSE IF Len(s) = 1 THEN s[1]
             ELSE LET m == SeqMax(Tail(s)) IN IF s[1] >= m THEN s[1] ELSE m

\* Mutant of MaxRaises: an empty label array is let through.
MaxNeverRaises(s) == FALSE

\* np.max raises ValueError on a zero-size array.
MaxRaises(s) == s = <<>>

\* Mutant of ClassNum: age is counted like the other attributes.
ClassNumPlusOne(attribute_name, targets) == SeqMax(targets) + 1

\* self.classnum
ClassNum(attribute_name, targets) ==
    IF attribute_name = "age" THEN SeqMax(targets) ELSE SeqMax(targets) + 1

\* Optional values: None, or a one-element tuple holding the value.
None == <<>>

Some(x) == <<x>>

\* self.samples
Samples(source, image_names) ==
    IF source # None
    THEN [i \in 1..Len(image_names) |-> PathJoin(source[1], image_names[i][1])]
    ELSE Column(image_names, 0)

\* self.masks: assigned only inside the branch "source is not None".
Masks(source, mask_source, image_names) ==
    IF source # None
    THEN IF mask_source # None
         THEN [state |-> "list",
               list |-> [i \in 1..Len(image_names) |->
                          DropLast4(PathJoin(mask_source[1], image_names[i][1]))
                              \o MaskSuffix]]
         ELSE [state |-> "None", list |-> <<>>]
    ELSE [state |-> "unset", list |-> <<>>]

\* The bytes f.read() returns for a readable file: opaque, one blob per path.
FileBytes(p) == <<"bytes", p>>

\* dumps_pyarrow: serialisation, then whole-buffer compression.
dumps_pyarrow(obj) == <<"lz4", <<"arrow", obj>>>>

\* --------------------------------------------------------------- the store
MetaKeys == <<"__keys__">>

MetaLen == <<"__len__">>

MetaClassnum == <<"__classnum__">>

EmptyStore == [k \in {} |-> <<>>]

\* The iterator's map from task index to a worker's result, empty.
NoResults == [i \in {} |-> <<>>]

RECURSIVE LastPut(_, _, _)
\* The value a transaction's puts leave under key k (a later put overwrites).
LastPut(puts, k, old) ==
    IF puts = <<>> THEN old
    ELSE LET p == puts[Len(puts)]
         IN IF p[1] = k THEN p[2]
            ELSE LastPut(SubSeq(puts, 1, Len(puts) - 1), k, old)

PutKeys(puts) == {puts[i][1] : i \in 1..Len(puts)}

\* Mutant of Commit: a commit leaves only its own puts in the store.
CommitReplaces(st, puts) ==
    [k \in PutKeys(puts) |-> LastPut(puts, k, <<>>)]

\* txn.commit(): the staged puts become the store's contents, atomically.
Commit(st, puts) ==
    [k \in DOMAIN st \cup PutKeys(puts) |->
        LastPut(puts, k, IF k \in DOMAIN st THEN st[k] ELSE <<>>)]

\* Mutant of KeyList: range(idx) in place of range(idx + 1).
KeyListShort(n) == [k \in 1..(n - 1) |-> FormatInt(k - 1)]

\* keys = ["{}".format(k).encode("ascii") for k in range(idx + 1)]
KeyList(n) == [k \in 1..n |-> FormatInt(k - 1)]

\* The three metadata puts of the closing transaction.
MetaPuts(keys, cnum) ==
    << <<MetaKeys, dumps_pyarrow(keys)>>,
       <<MetaLen, dumps_pyarrow(Len(keys))>>,
       <<MetaClassnum, dumps_pyarrow(cnum)>> >>

\* The value the writer loop puts for one delivered sample.
EncodeSample(sample) ==
    IF sample.mask # None
    THEN dumps_pyarrow(<<sample.image, sample.label, sample.mask[1]>>)
    ELSE dumps_pyarrow(<<sample.image, sample.label>>)

\* ----------------------------------------------------------------- inputs
Jpg(c) == <<c, ".", "j", "p", "g">>

\* Manifest rows: path, race, gender, age, recognition id.
RowPool ==
    { <<Jpg("a"), 0, 0, 30, 7>>,
      <<Jpg("b"), 4, 1, 101, 2>>,
      <<Jpg("c"), 5, 2, -1, -1>> }

RECURSIVE SeqsUpTo(_, _)
SeqsUpTo(S, n) ==
    IF n = 0 THEN {<<>>}
    ELSE LET shorter == SeqsUpTo(S, n - 1)
         IN shorter \cup {Append(q, x) : q \in shorter, x \in S}

\* A long manifest: LongLen rows, in range for gender, out of range for age
\* and for race and recognition, which both read the second column.
LongList == [i \in 1..LongLen |-> <<Jpg("a"), -1, i % 2, 100 + i, i>>]

\* The manifest of the scenario "write-frequency 2 with 5 records".
ScenarioList == [i \in 1..ScenarioLen |-> <<Jpg("e"), i % 5, 2, -1, i>>]

\* The manifest of the scenario "gender labels 0, 1, 2".
GenderList ==
    << <<Jpg("a"), 0, 0, 30, 7>>, <<Jpg("b"), 4, 1, 101, 2>>,
       <<Jpg("c"), 5, 2, -1, -1>> >>

ImageLists ==
    SeqsUpTo(RowPool, MaxRows) \cup {LongList, ScenarioList, GenderList}

SourceRoot == <<"s">>

MaskRoot == <<"m">>

\* What lmdb.open finds at lmdb_path: nothing, or the store a complete
\* earlier run on a two-row manifest left there.
PriorStore ==
    LET rows == <<<<Jpg("x"), 1, 0, 20, 3>>, <<Jpg("y"), 2, 1, 40, 4>>>>
        smp == Samples(Some(SourceRoot), rows)
        msk == Masks(Some(SourceRoot), Some(MaskRoot), rows).list
        tgt == Column(rows, ATTRIBUTES["gender"])
        data == [i \in 1..Len(rows) |->
                   <<FormatInt(i - 1),
                     dumps_pyarrow(<<FileBytes(smp[i]), tgt[i],
                                     FileBytes(msk[i])>>)>>]
    IN Commit(Commit(EmptyStore, data),
              MetaPuts(KeyList(Len(rows)), ClassNum("gender", tgt)))

\* ------------------------------------------------------------------ state
VARIABLES
    attribute_name, source, mask_source, image_list, num_workers,
    write_frequency,                      \* the arguments of list2lmdb
    samples, masks, targets, classnum,    \* the ImageListRaw dataset
    send_idx, rcvd_idx, done,             \* the DataLoader iterator
    pc, at, data, idx, txn_open, staged, store, db_open, put_log, commit_log,
    err

args == <<attribute_name, source, mask_source, image_list, num_workers,
          write_frequency>>

dataset == <<samples, masks, targets, classnum>>

loader == <<send_idx, rcvd_idx, done>>

writer == <<pc, at, data, idx, txn_open, staged, store, db_open, put_log,
            commit_log, err>>

vars == <<args, dataset, loader, writer>>

\* pc is the phase of the run; at is the statement list2lmdb runs next:
\*   "begin"  db.begin(write=True)     "iter"    iter(data_loader)
\*   "next"   next(iterator)           "put"     txn.put of the sample held
\*   "commit" txn.commit()             "keys"    the key list after the loop
\*   "exit"   leaving the with block   "sync", "close", "end".
Init ==
    /\ attribute_name \in AttributeNames
    /\ source \in {None, Some(SourceRoot)}
    /\ mask_source \in {None, Some(MaskRoot)}
    /\ image_list \in ImageLists
    /\ num_workers \in 0..MaxWorkers
    /\ write_frequency \in 1..MaxWriteFreq
    /\ samples = <<>>
    /\ masks = [state |-> "unset", list |-> <<>>]
    /\ targets = <<>>
    /\ classnum = 0
    /\ send_idx = 0
    /\ rcvd_idx = 0
    /\ done = NoResults
    /\ pc = "start"
    /\ at = "load"
    /\ data = None
    /\ idx = -1
    /\ txn_open = 0
    /\ staged = <<>>
    /\ store \in {EmptyStore, PriorStore}
    /\ db_open = FALSE
    /\ put_log = <<>>
    /\ commit_log = <<>>
    /\ err = "none"

\* ---------------------------------------------------------------- dataset
\* len(data_loader.dataset)
N == Len(samples)

Raised(e) == [err |-> e, image |-> <<>>, label |-> 0, mask |-> None]

\* ImageListRaw.__getitem__(index), index counted from 0: the outcomes it can
\* have.  Either open() can fail on a missing or unreadable file.
GetItem(index) ==
    LET i == index + 1
    IN {Raised("OSError")} \cup
       { IF masks.state = "unset" THEN Raised("AttributeError")
         ELSE IF masks.state = "None" THEN Raised("UnboundLocalError")
         ELSE [err |-> "none", image |-> FileBytes(samples[i]),
               label |-> targets[i], mask |-> Some(FileBytes(masks.list[i]))] }

Fail(e) == pc' = "failed" /\ at' = "end" /\ err' = e

\* ImageListRaw.__init__ and the DataLoader built around it.
Construct ==
    /\ pc = "start"
    /\ LET kept == Filtered(image_list, attribute_name)
       IN IF image_list = <<>>
          THEN /\ Fail("EmptyDataError")
               /\ UNCHANGED dataset
          ELSE IF MaxRaises(Column(kept, ATTRIBUTES[attribute_name]))
          THEN /\ Fail("ValueError")
               /\ UNCHANGED dataset
          ELSE /\ samples' = Samples(source, kept)
               /\ masks' = Masks(source, mask_source, kept)
               /\ targets' = Column(kept, ATTRIBUTES[attribute_name])
               /\ classnum' = ClassNum(attribute_name, targets')
               /\ pc' = "loaded"
               /\ at' = "open"
               /\ err' = err
    /\ UNCHANGED <<args, loader, data, idx, txn_open, staged, store, db_open,
                   put_log, commit_log>>

\* ----------------------------------------------------------------- loader
\* _try_put_index: hand the next sampler index to a worker, if one is left.
TryPutIndex(s) == IF s < N THEN s + 1 ELSE s

\* Mutant of FirstSendIdx: every index is sent out at the start.
FirstSendAll == N

\* The iterator's start: prefetch_factor * num_workers indices are sent out.
FirstSendIdx ==
    IF PrefetchFactor * num_workers < N THEN PrefetchFactor * num_workers ELSE N

\* Task i goes to worker i mod num_workers; a worker takes its tasks in order.
Pending(w) ==
    {i \in rcvd_idx..(send_idx - 1) : i % num_workers = w /\ i \notin DOMAIN done}

\* Mutant of NextDelivery: results are handed over as they arrive.
AnyDelivery(results, rcvd) == DOMAIN results

\* The task whose result _next_data hands to the loop: the one numbered
\* rcvd_idx, once it has arrived; results that arrive early wait.
NextDelivery(results, rcvd) == IF rcvd \in DOMAIN results THEN {rcvd} ELSE {}

\* A worker process runs dataset[index] for the next task in its queue,
\* whatever statement the writer is at.
WorkerFetch(w) ==
    /\ pc = "writing"
    /\ num_workers > 0
    /\ Pending(w) # {}
    /\ LET i == CHOOSE j \in Pending(w) : \A k \in Pending(w) : j <= k
       IN \E r \in GetItem(i) :
            done' = [j \in DOMAIN done \cup {i} |-> IF j = i THEN r ELSE done[j]]
    /\ UNCHANGED <<args, dataset, send_idx, rcvd_idx, writer>>

\* What next(iterator) can return now: <<task index, result>>.
Deliverable ==
    IF num_workers = 0
    THEN IF rcvd_idx < N THEN {<<rcvd_idx, r>> : r \in GetItem(rcvd_idx)} ELSE {}
    ELSE {<<j, done[j]>> : j \in NextDelivery(done, rcvd_idx)}

\* _process_data: count the delivery, refill the prefetch window.
Delivered(j) ==
    /\ rcvd_idx' = rcvd_idx + 1
    /\ send_idx' = IF num_workers = 0 THEN send_idx ELSE TryPutIndex(send_idx)
    /\ done' = [k \in DOMAIN done \ {j} |-> done[k]]

\* An exception leaves the loop: the iterator goes away with the results it
\* still held.
Abandoned == done' = NoResults /\ UNCHANGED <<send_idx, rcvd_idx>>

\* ----------------------------------------------------------------- writer
\* db.begin(write=True): one more write transaction is open.
BeginTxn(n) == n + 1

\* Mutant of CommitTxn: the committed transaction is still counted as open.
CommitKeepsOpen(n) == n

\* txn.commit(): the transaction is over.
CommitTxn(n) == n - 1

\* A transaction ends without its puts reaching the store: a txn.commit()
\* that fails, or leaving "with db.begin(...) as txn" on an exception.
AbortTxn(n) == n - 1

\* lmdb.open: the store at lmdb_path is reused as found, or the call fails
\* (no such directory, no permission) and no store is open.
OpenStore ==
    /\ pc = "loaded"
    /\ \E fault \in {"none", "open"} :
         IF fault = "open"
         THEN /\ Fail("lmdb.Error")
              /\ UNCHANGED db_open
         ELSE /\ pc' = "open"
              /\ at' = "begin"
              /\ db_open' = TRUE
              /\ err' = err
    /\ UNCHANGED <<args, dataset, loader, data, idx, txn_open, staged, store,
                   put_log, commit_log>>

\* txn = db.begin(write=True), before the loop (the run starts Writing) and
\* after each commit inside it.
Begin ==
    /\ pc \in {"open", "writing"}
    /\ at = "begin"
    /\ \E fault \in {"none", "begin"} :
         IF fault = "begin"
         THEN /\ Fail("lmdb.Error")
              /\ Abandoned
              /\ UNCHANGED txn_open
         ELSE /\ txn_open' = BeginTxn(txn_open)
              /\ pc' = "writing"
              /\ at' = IF pc = "open" THEN "iter" ELSE "next"
              /\ UNCHANGED <<loader, err>>
    /\ UNCHANGED <<args, dataset, data, idx, staged, store, db_open,
                   put_log, commit_log>>

\* enumerate(data_loader): the iterator is created and the first indices go
\* out to the workers.
StartIter ==
    /\ pc = "writing"
    /\ at = "iter"
    /\ at' = "next"
    /\ send_idx' = IF num_workers = 0 THEN 0 ELSE FirstSendIdx
    /\ UNCHANGED <<args, dataset, rcvd_idx, done, pc, data, idx, txn_open,
                   staged, store, db_open, put_log, commit_log, err>>

\* Mutant of RecordKey: keys counted from one.
RecordKeyFromOne(i) == FormatInt(i + 1)

\* The key of the record the loop numbers i.
RecordKey(i) == FormatInt(i)

\* Mutant of CommitDue: a commit at every index that write_frequency + 1 divides.
CommitDueLate(i, wf) == i % (wf + 1) = 0

\* Mutant of CommitDue: a commit once write_frequency records are staged.
CommitDueWhenFull(i, wf) == (i + 1) % wf = 0

\* idx % write_frequency == 0
CommitDue(i, wf) == i % wf = 0

\* next(iterator) re-raises the exception of the worker that ran the task.
IterRaise ==
    /\ pc = "writing"
    /\ at = "next"
    /\ \E d \in Deliverable :
         /\ d[2].err # "none"
         /\ Fail(d[2].err)
    /\ done' = NoResults
    /\ rcvd_idx' = rcvd_idx + 1
    /\ send_idx' = IF num_workers = 0 THEN send_idx ELSE TryPutIndex(send_idx)
    /\ UNCHANGED <<args, dataset, data, idx, txn_open, staged, store, db_open,
                   put_log, commit_log>>

\* next(iterator) hands the loop its next sample; enumerate numbers it.
NextItem ==
    /\ pc = "writing"
    /\ at = "next"
    /\ \E d \in Deliverable :
         /\ d[2].err = "none"
         /\ Delivered(d[1])
         /\ data' = Some(d[2])
         /\ idx' = rcvd_idx
    /\ at' = "put"
    /\ UNCHANGED <<args, dataset, pc, txn_open, staged, store, db_open,
                   put_log, commit_log, err>>

\* The loop body up to txn.put: the sample held is unpacked, encoded and
\* put under the key of its index.
PutRecord ==
    /\ pc = "writing"
    /\ at = "put"
    /\ \E fault \in {"none", "encode", "put"} :
         IF fault # "none"
         THEN /\ Fail(IF fault = "encode" THEN "EncodingError" ELSE "lmdb.Error")
              /\ Abandoned
              /\ UNCHANGED <<staged, put_log>>
         ELSE /\ staged' = Append(staged, <<RecordKey(idx), EncodeSample(data[1])>>)
              /\ put_log' = Append(put_log, staged'[Len(staged')])
              /\ at' = IF CommitDue(idx, write_frequency) THEN "commit" ELSE "next"
              /\ UNCHANGED <<pc, err, loader>>
    /\ data' = None
    /\ UNCHANGED <<args, dataset, idx, txn_open, store, db_open, commit_log>>

\* txn.commit() inside the loop, at an index write_frequency divides.
CommitBatch ==
    /\ pc = "writing"
    /\ at = "commit"
    /\ \E fault \in {"none", "commit"} :
         IF fault = "commit"
         THEN /\ Fail("lmdb.Error")
              /\ Abandoned
              /\ txn_open' = AbortTxn(txn_open)
              /\ staged' = <<>>
              /\ UNCHANGED <<store, commit_log>>
         ELSE /\ store' = Commit(store, staged)
              /\ commit_log' = Append(commit_log, PutKeys(staged))
              /\ staged' = <<>>
              /\ txn_open' = CommitTxn(txn_open)
              /\ at' = "begin"
              /\ UNCHANGED <<pc, err, loader>>
    /\ UNCHANGED <<args, dataset, data, idx, db_open, put_log>>

\* Mutant of Exhausted: the loop ends after its first record.
ExhaustedEarly == rcvd_idx >= 1

\* The loader raises StopIteration: every sample has been delivered.
Exhausted == rcvd_idx = N

\* The loader is exhausted: the commit that follows the loop.
FinalCommit ==
    /\ pc = "writing"
    /\ at = "next"
    /\ Exhausted
    /\ \E fault \in {"none", "commit"} :
         IF fault = "commit"
         THEN /\ Fail("lmdb.Error")
              /\ txn_open' = AbortTxn(txn_open)
              /\ staged' = <<>>
              /\ UNCHANGED <<store, commit_log>>
         ELSE /\ store' = Commit(store, staged)
              /\ commit_log' = Append(commit_log, PutKeys(staged))
              /\ staged' = <<>>
              /\ txn_open' = CommitTxn(txn_open)
              /\ pc' = "finalizing"
              /\ at' = "keys"
              /\ err' = err
    /\ UNCHANGED <<args, dataset, loader, data, idx, db_open, put_log>>

\* keys = [...] and "with db.begin(write=True) as txn": the list of keys is
\* built from idx, then the closing transaction begins.
MetaBegin ==
    /\ pc = "finalizing"
    /\ at = "keys"
    /\ \E fault \in {"none", "begin"} :
         IF idx < 0
         THEN /\ Fail("NameError")
              /\ UNCHANGED txn_open
         ELSE IF fault = "begin"
         THEN /\ Fail("lmdb.Error")
              /\ UNCHANGED txn_open
         ELSE /\ txn_open' = BeginTxn(txn_open)
              /\ at' = "meta"
              /\ UNCHANGED <<pc, err>>
    /\ UNCHANGED <<args, dataset, loader, data, idx, staged, store, db_open,
                   put_log, commit_log>>

\* One of the three metadata puts, in the order of the code; an exception
\* leaves the with block, which aborts the transaction.
MetaPut ==
    /\ pc = "finalizing"
    /\ at = "meta"
    /\ \E fault \in {"none", "encode", "put"} :
         IF fault # "none"
         THEN /\ Fail(IF fault = "encode" THEN "EncodingError" ELSE "lmdb.Error")
              /\ txn_open' = AbortTxn(txn_open)
              /\ staged' = <<>>
         ELSE LET puts == MetaPuts(KeyList(idx + 1), classnum)
              IN /\ staged' = Append(staged, puts[Len(staged) + 1])
                 /\ at' = IF Len(staged') = Len(puts) THEN "exit" ELSE "meta"
                 /\ UNCHANGED <<pc, err, txn_open>>
    /\ UNCHANGED <<args, dataset, loader, data, idx, store, db_open, put_log,
                   commit_log>>

\* The end of the with block commits the three metadata puts together.
MetaCommit ==
    /\ pc = "finalizing"
    /\ at = "exit"
    /\ \E fault \in {"none", "commit"} :
         IF fault = "commit"
         THEN /\ Fail("lmdb.Error")
              /\ txn_open' = AbortTxn(txn_open)
              /\ staged' = <<>>
              /\ UNCHANGED <<store, commit_log>>
         ELSE /\ store' = Commit(store, staged)
              /\ commit_log' = Append(commit_log, PutKeys(staged))
              /\ staged' = <<>>
              /\ txn_open' = CommitTxn(txn_open)
              /\ pc' = "flushing"
              /\ at' = "sync"
              /\ err' = err
    /\ UNCHANGED <<args, dataset, loader, data, idx, db_open, put_log>>

\* db.sync(): the flush to disk, which can fail like any store call; the
\* committed contents stay as they are.
Sync ==
    /\ pc = "flushing"
    /\ \E fault \in {"none", "sync"} :
         IF fault = "sync"
         THEN Fail("lmdb.Error")
         ELSE /\ pc' = "synced"
              /\ at' = "close"
              /\ err' = err
    /\ UNCHANGED <<args, dataset, loader, data, idx, txn_open, staged, store,
                   db_open, put_log, commit_log>>

\* db.close()
Close ==
    /\ pc = "synced"
    /\ pc' = "closed"
    /\ at' = "end"
    /\ db_open' = FALSE
    /\ UNCHANGED <<args, dataset, loader, data, idx, txn_open, staged, store,
                   put_log, commit_log, err>>

Next ==
    \/ Construct
    \/ OpenStore
    \/ Begin
    \/ StartIter
    \/ \E w \in 0..(MaxWorkers - 1) : WorkerFetch(w)
    \/ IterRaise
    \/ NextItem
    \/ PutRecord
    \/ CommitBatch
    \/ FinalCommit
    \/ MetaBegin
    \/ MetaPut
    \/ MetaCommit
    \/ Sync
    \/ Close

Spec == Init /\ [][Next]_vars

\* The interpreter and the worker processes keep running: a step that can
\* be taken is taken.
FairSpec == Spec /\ WF_vars(Next)

\* ------------------------------------------------------------- properties
\* Positions of the manifest rows whose label in column c lies in 0..maxc.
InRange(c, maxc) ==
    {i \in 1..Len(image_list) :
        /\ image_list[i][c + 1] >= 0
        /\ (maxc = Inf \/ image_list[i][c + 1] <= maxc)}

\* Rows that pass the range filter of ImageListRaw.__init__.
Survivors == InRange(ATTRIBUTES[attribute_name], MAX_CLASS[attribute_name])

\* The manifest position of the k-th survivor, k counted from 1.
NthSurvivor(k) ==
    CHOOSE i \in Survivors : Cardinality({j \in Survivors : j <= i}) = k

SetMax(S) == CHOOSE m \in S : \A x \in S : x <= m

\* The tuple inside an encoded value.
Decoded(v) == v[2][2]

MetaWritten == {MetaKeys, MetaLen, MetaClassnum} \cap DOMAIN store

\* C1: after a successful run the data keys put are exactly "0".."N-1", each
\* put once, N being the number of manifest rows that pass the range filter.
C1_KeySetExact ==
    pc = "closed" =>
        LET n == Cardinality(Survivors)
            keys == [j \in 1..Len(put_log) |-> put_log[j][1]]
        IN /\ Len(keys) = n
           /\ {keys[j] : j \in 1..n} = {FormatInt(k) : k \in 0..(n - 1)}
           /\ \A a, b \in 1..n : keys[a] = keys[b] => a = b
           /\ Cardinality({FormatInt(k) : k \in 0..(n - 1)}) = n

C1_Witness ==
    pc = "closed" /\ Len(put_log) > 10 /\ Cardinality(Survivors) = Len(put_log)

\* What the i-th entry of the filtered manifest is stored as (i from 1).
RecordOfEntry(i) ==
    dumps_pyarrow(<<FileBytes(samples[i]), targets[i], FileBytes(masks.list[i])>>)

\* C2: whatever the worker count and the order in which workers finish, the
\* loop receives the samples in filtered-manifest order: the j-th put is key
\* j-1 with the record of the j-th filtered entry, and a finished run holds
\* under key i the record of entry i, a mapping fixed by the manifest alone.
C2_ManifestOrder ==
    /\ \A j \in 1..Len(put_log) :
         put_log[j] = <<FormatInt(j - 1), RecordOfEntry(j)>>
    /\ pc = "closed" =>
         \A i \in 0..(N - 1) : store[FormatInt(i)] = RecordOfEntry(i + 1)

\* A later task has finished while the one the loop waits for has not.
C2_Witness ==
    /\ pc = "writing"
    /\ num_workers > 1
    /\ put_log # <<>>
    /\ rcvd_idx \notin DOMAIN done
    /\ rcvd_idx + 1 \in DOMAIN done
    /\ done[rcvd_idx + 1].err = "none"

\* C3: after a successful run __len__ holds the number of data records
\* written and __keys__ the keys "0".."N-1" in the order they were put.
C3_LenAndKeys ==
    pc = "closed" =>
        LET n == Len(put_log)
        IN /\ store[MetaLen] = dumps_pyarrow(n)
           /\ store[MetaKeys] = dumps_pyarrow([j \in 1..n |-> put_log[j][1]])
           /\ \A j \in 1..n : Decoded(store[MetaKeys])[j] = FormatInt(j - 1)
           /\ Len(Decoded(store[MetaKeys])) = Cardinality(Survivors)

C3_Witness ==
    pc = "closed" /\ Len(put_log) >= 2 /\ Decoded(store[MetaLen]) = Len(put_log)

\* This run has committed its own metadata (every record before it).
MetaCommitted ==
    /\ commit_log # <<>>
    /\ commit_log[Len(commit_log)] = {MetaKeys, MetaLen, MetaClassnum}

\* C4: a run that opened the store and failed before every record and the
\* metadata were committed leaves no __len__, __keys__ or __classnum__ in
\* it, whatever the store held when it was opened.
C4_FailedRunHasNoMetadata ==
    (pc = "failed" /\ db_open /\ ~MetaCommitted) => MetaWritten = {}

\* C5: every record put carries the label of its row in the selected
\* attribute's column, within 0..max of the attribute (race 4, gender 1), and
\* gender labels 0, 1, 2 give keys "0", "1", __len__ 2 and __classnum__ 2.
C5_LabelsInRange ==
    /\ \A j \in 1..Len(put_log) :
         LET label == Decoded(put_log[j][2])[2]
             row == image_list[NthSurvivor(j)]
         IN /\ label = row[ATTRIBUTES[attribute_name] + 1]
            /\ label >= 0
            /\ attribute_name = "race" => label <= 4
            /\ attribute_name = "gender" => label <= 1
            /\ MAX_CLASS[attribute_name] # Inf => label <= MAX_CLASS[attribute_name]
    /\ pc \notin {"start", "failed"} => N = Cardinality(Survivors)
    /\ ( /\ pc = "closed"
         /\ attribute_name = "gender"
         /\ Column(image_list, 2) = <<0, 1, 2>> )
       => /\ [j \in 1..Len(put_log) |-> put_log[j][1]] = <<<<"0">>, <<"1">>>>
          /\ store[MetaLen] = dumps_pyarrow(2)
          /\ store[MetaClassnum] = dumps_pyarrow(2)

C5_Witness ==
    /\ pc = "closed"
    /\ attribute_name = "gender"
    /\ Column(image_list, 2) = <<0, 1, 2>>
    /\ Len(put_log) = 2

\* C6: without a mask root the resolver returns image bytes and label with
\* an absent mask for every entry, and a stored record has three elements
\* exactly when a mask root was given.
C6_UnmaskedResolves ==
    /\ (mask_source = None /\ pc \notin {"start", "failed"}) =>
         \A index \in 0..(N - 1) :
            \E r \in GetItem(index) :
               /\ r.err = "none"
               /\ r.image = FileBytes(samples[index + 1])
               /\ r.label = targets[index + 1]
               /\ r.mask = None
    /\ \A j \in 1..Len(put_log) :
         (Len(Decoded(put_log[j][2])) = 3) <=> (mask_source # None)

\* C7: __classnum__ is max(label)+1 for race, gender and recognition and
\* max(label) for age, the maximum taken over the rows that passed the filter.
C7_ClassNum ==
    pc = "closed" =>
        LET c == ATTRIBUTES[attribute_name]
            top == SetMax({image_list[i][c + 1] : i \in Survivors})
        IN store[MetaClassnum] =
              dumps_pyarrow(IF attribute_name = "age" THEN top ELSE top + 1)

\* A finished age run whose raw manifest holds a larger label than any kept.
C7_Witness ==
    /\ pc = "closed"
    /\ attribute_name = "age"
    /\ \E i \in 1..Len(image_list) : i \notin Survivors /\ image_list[i][4] > 100
    /\ Decoded(store[MetaClassnum]) = 30

\* C8 as stated: for age a row is dropped only when its label is negative,
\* every row with a non-negative age is written, and the class count is the
\* largest age label seen.
C8_AgeUnbounded ==
    (pc = "closed" /\ attribute_name = "age") =>
        LET nonneg == {i \in 1..Len(image_list) : image_list[i][4] >= 0}
        IN /\ Len(put_log) = Cardinality(nonneg)
           /\ store[MetaClassnum] =
                 dumps_pyarrow(SetMax({image_list[i][4] : i \in nonneg}))

\* C8 amended: for age the valid labels are 0..100: a row is dropped when
\* its age label is negative or above 100, every row with an age label in
\* 0..100 is written, and the class count is the largest age label kept.
C8_AgeBoundedBy100 ==
    (pc = "closed" /\ attribute_name = "age") =>
        LET valid == {i \in 1..Len(image_list) :
                         image_list[i][4] >= 0 /\ image_list[i][4] <= 100}
        IN /\ Len(put_log) = Cardinality(valid)
           /\ \A j \in 1..Len(put_log) : Decoded(put_log[j][2])[2] \in 0..100
           /\ store[MetaClassnum] =
                 dumps_pyarrow(SetMax({image_list[i][4] : i \in valid}))

C8_Witness ==
    /\ pc = "closed"
    /\ attribute_name = "age"
    /\ \E i \in 1..Len(image_list) : image_list[i][4] > 100
    /\ Len(put_log) >= 1
    /\ Len(put_log) < Len(image_list)

\* The manifest column of each selector in the layout
\* [path] [race] [gender] [age] [recognition-id].
LayoutColumn == [race |-> 1, gender |-> 2, age |-> 3, recognition |-> 4]

\* C9: every selector filters on and stores the label of its own column of
\* the layout; recognition reads the fifth token, not the race column.
C9_OwnColumn ==
    pc \notin {"start", "failed"} =>
        LET c == LayoutColumn[attribute_name]
            kept == InRange(c, MAX_CLASS[attribute_name])
        IN /\ Len(targets) = Cardinality(kept)
           /\ \A j \in 1..Len(targets) :
                \E i \in kept : /\ Cardinality({k \in kept : k <= i}) = j
                                /\ targets[j] = image_list[i][c + 1]
           /\ \A j \in 1..Len(put_log) :
                Decoded(put_log[j][2])[2] = targets[j]

\* C10: when no manifest row passes the filter the run fails with an error
\* before the store is opened: nothing is put or committed, no metadata key
\* is written and the run gets no further than the loader.
C10_EmptyFailsFast ==
    Survivors = {} =>
        /\ pc \in {"start", "failed"}
        /\ pc = "failed" => err \in {"ValueError", "EmptyDataError"}
        /\ ~db_open
        /\ txn_open = 0
        /\ put_log = <<>>
        /\ commit_log = <<>>

\* Rows were read and every one of them was filtered out.
C10_Witness ==
    /\ Survivors = {}
    /\ image_list # <<>>
    /\ pc = "failed"
    /\ err = "ValueError"

\* Index of the record a key names, for the keys of this run.
KeyIndex(k) == CHOOSE i \in 0..N : FormatInt(i) = k

\* The data commits in the log: all of it but the metadata commit.
DataCommits ==
    IF MetaCommitted
    THEN SubSeq(commit_log, 1, Len(commit_log) - 1)
    ELSE commit_log

\* The loop commits there have been once n records are put and the commit
\* after the n-th, if one is due, is through.
CommitsAfter(n) == IF n = 0 THEN 0 ELSE (n - 1) \div write_frequency + 1

\* C11: the loop commits right after staging records 0, w, 2w, ... and once
\* more after the last record; over all these commits every record 0..N-1 is
\* committed exactly once (w = 2, N = 5: commits after 0, 2, 4 and a last one).
C11_CommitBoundaries ==
    /\ pc = "writing" =>
         /\ Len(commit_log) + (IF at = "commit" THEN 1 ELSE 0)
               = CommitsAfter(Len(put_log))
         /\ at = "commit" <=>
               /\ staged # <<>>
               /\ \E i \in 0..(N - 1) :
                    /\ i % write_frequency = 0
                    /\ staged[Len(staged)][1] = FormatInt(i)
         /\ \A k \in 1..Len(commit_log) :
              /\ FormatInt((k - 1) * write_frequency) \in commit_log[k]
              /\ \A key \in commit_log[k] :
                   KeyIndex(key) <= (k - 1) * write_frequency
    /\ pc \in {"finalizing", "flushing", "synced", "closed"} =>
         /\ Len(DataCommits) = (N - 1) \div write_frequency + 2
         /\ \A i \in 0..(N - 1) :
              Cardinality({k \in 1..Len(DataCommits) :
                              FormatInt(i) \in DataCommits[k]}) = 1
         /\ \A k \in 1..Len(DataCommits) :
              DataCommits[k] \subseteq {FormatInt(i) : i \in 0..(N - 1)}
    /\ (pc = "closed" /\ write_frequency = 2 /\ N = 5) =>
         DataCommits = << {<<"0">>}, {<<"1">>, <<"2">>}, {<<"3">>, <<"4">>}, {} >>

C11_Witness ==
    /\ pc = "closed"
    /\ write_frequency = 2
    /\ N = 5
    /\ Len(DataCommits) = 4

\* The run has ended: list2lmdb has returned or an exception has left it.
Ended == pc \in {"closed", "failed"}

\* C12: on every exit path of a run that opened the store, the error paths
\* included, the store handle has been closed when the run ends.
C12_ClosedOnEveryExit ==
    Ended => ~db_open

\* Position of a control state in the order Open, Writing, Finalizing, Closed.
Rank(p) ==
    CASE p = "start" -> 0 [] p = "loaded" -> 1 [] p = "open" -> 2
      [] p = "writing" -> 3 [] p = "finalizing" -> 4 [] p = "flushing" -> 5
      [] p = "synced" -> 6 [] p = "closed" -> 7 [] p = "failed" -> 8

\* Every record of the run is committed and no data put is staged.
AllDataCommitted ==
    /\ Len(put_log) = N
    /\ PutKeys(staged) \subseteq {MetaKeys, MetaLen, MetaClassnum}
    /\ \A i \in 0..(N - 1) :
         /\ \E k \in 1..Len(DataCommits) : FormatInt(i) \in DataCommits[k]
         /\ store[FormatInt(i)] = put_log[i + 1][2]

\* The step commits the metadata transaction.
MetaCommitStep ==
    /\ Len(commit_log') = Len(commit_log) + 1
    /\ commit_log'[Len(commit_log')] = {MetaKeys, MetaLen, MetaClassnum}

\* The step puts a metadata key into the open transaction.
MetaPutStep ==
    PutKeys(staged') \cap {MetaKeys, MetaLen, MetaClassnum}
        # PutKeys(staged) \cap {MetaKeys, MetaLen, MetaClassnum}

ForwardStep ==
    /\ Rank(pc') >= Rank(pc)
    /\ (pc' # pc /\ pc' # "failed") => Rank(pc') = Rank(pc) + 1
    /\ (pc = "finalizing" /\ txn_open' > txn_open) =>
         (txn_open = 0 /\ staged = <<>> /\ AllDataCommitted)
    /\ (MetaPutStep /\ pc' # "failed") =>
         (pc = "finalizing" /\ txn_open = 1 /\ AllDataCommitted)
    /\ MetaCommitStep =>
         /\ pc = "finalizing"
         /\ AllDataCommitted
         /\ PutKeys(staged) = {MetaKeys, MetaLen, MetaClassnum}
         /\ txn_open = 1 /\ txn_open' = 0
    /\ (\E k \in {MetaKeys, MetaLen, MetaClassnum} :
           k \in DOMAIN store' /\ (k \notin DOMAIN store \/ store'[k] # store[k]))
         => MetaCommitStep
    /\ (pc' = "synced" /\ pc # "synced") =>
         /\ pc = "flushing"
         /\ commit_log[Len(commit_log)] = {MetaKeys, MetaLen, MetaClassnum}
    /\ (pc' = "closed" /\ pc # "closed") => pc = "synced"

\* C13: the writer only moves forward through Open, Writing, Finalizing,
\* Closed; the metadata is put in one transaction begun after the one with
\* the last record has committed, sync follows the metadata commit and close
\* follows sync; and a run in which nothing fails reaches Closed.
C13_ForwardOnly ==
    /\ [][ForwardStep]_vars
    /\ [](pc \in {"finalizing", "flushing", "synced", "closed"} => AllDataCommitted)
    /\ <>(pc = "closed" \/ pc = "failed")

C13_Witness ==
    /\ pc = "closed"
    /\ N >= 2
    /\ MetaWritten = {MetaKeys, MetaLen, MetaClassnum}
    /\ Len(DataCommits) >= 2

\* The data keys among a set of keys.
DataKeysOf(S) == S \ {MetaKeys, MetaLen, MetaClassnum}

\* C14 as stated: every data transaction committed before the final one
\* holds exactly write_frequency puts, and none ever holds more.
C14_FullBatches ==
    /\ pc = "writing" =>
         \A k \in 1..Len(commit_log) :
            Cardinality(commit_log[k]) = write_frequency
    /\ Cardinality(DataKeysOf(PutKeys(staged))) <= write_frequency

\* C14 amended: the first data transaction is committed with one put, the
\* record of index 0; every later data transaction committed before the
\* final one holds exactly write_frequency puts; none ever holds more.
C14_FirstBatchOfOne ==
    /\ pc = "writing" =>
         /\ Len(commit_log) >= 1 => commit_log[1] = {FormatInt(0)}
         /\ \A k \in 2..Len(commit_log) :
              Cardinality(commit_log[k]) = write_frequency
         /\ at # "commit" => Len(staged) < write_frequency
         /\ (at = "commit" /\ commit_log # <<>>) => Len(staged) = write_frequency
    /\ Cardinality(DataKeysOf(PutKeys(staged))) <= write_frequency
    /\ \A k \in 1..Len(commit_log) :
         Cardinality(DataKeysOf(commit_log[k])) <= write_frequency

\* Two loop commits are in the log, the first of one put, the second full.
C14_Witness ==
    /\ pc = "writing"
    /\ write_frequency = 2
    /\ Len(commit_log) = 2
    /\ Cardinality(commit_log[1]) = 1
    /\ Cardinality(commit_log[2]) = 2

\* The data keys this run has committed so far.
CommittedData ==
    UNION {DataKeysOf(commit_log[k]) : k \in 1..Len(commit_log)}

PutLogKeys == {put_log[j][1] : j \in 1..Len(put_log)}

CommittedPrefix ==
    /\ \E k \in 0..N : CommittedData = {FormatInt(i) : i \in 0..(k - 1)}
    /\ \A j \in 1..Len(put_log) :
         put_log[j][1] \in CommittedData =>
            /\ put_log[j][1] \in DOMAIN store
            /\ store[put_log[j][1]] = put_log[j][2]
    /\ pc # "failed" =>
         PutLogKeys = CommittedData \cup DataKeysOf(PutKeys(staged))
    /\ CommittedData \subseteq PutLogKeys
    /\ DataKeysOf(PutKeys(staged)) \subseteq PutLogKeys \ CommittedData
    /\ Cardinality(PutLogKeys \ CommittedData) <= write_frequency
    /\ CommittedData \cap PutKeys(staged) = {}

CommittedStays ==
    /\ \A key \in CommittedData :
          /\ key \in CommittedData'
          /\ key \in DOMAIN store'
          /\ store'[key] = store[key]
    /\ (pc' = "failed" /\ pc # "failed") =>
          /\ CommittedData' = CommittedData
          /\ store' = store
          /\ PutLogKeys' \ CommittedData' = DataKeysOf(PutKeys(staged))

\* C15: in every state, the states a failure leaves included, the data keys
\* this run has committed are a prefix "0".."k-1" of the key space, k <= N,
\* holding the records put under them; no later step or failure removes or
\* changes a committed record, and a failure loses only the staged puts.
C15_CommittedPrefix ==
    []CommittedPrefix /\ [][CommittedStays]_vars

\* A run failed in the middle of a batch, after an earlier commit.
C15_Witness ==
    /\ pc = "failed"
    /\ Len(staged) >= 1
    /\ Cardinality(CommittedData) >= 1
    /\ Cardinality(CommittedData) + Len(staged) < N

\* Records a worker has resolved and the iterator still holds.
InFlight == DOMAIN done

\* The record the loop has taken from the iterator and not yet put.
Held == IF data = None THEN 0 ELSE 1

\* C16: at every point of a run the number of records resolved and not yet
\* staged is at most twice the worker count plus the one the loop holds,
\* whatever the number of manifest entries; the number of indices handed out
\* and not yet delivered is at most twice the worker count.
C16_BoundedInFlight ==
    /\ Cardinality(InFlight) + Held <= 2 * num_workers + 1
    /\ Cardinality(InFlight) <= 2 * num_workers
    /\ send_idx - rcvd_idx <= 2 * num_workers
    /\ \A i \in InFlight : rcvd_idx <= i /\ i < send_idx

\* The window is full while manifest entries are still to be handed out.
C16_Witness ==
    /\ pc = "writing"
    /\ num_workers = 2
    /\ Cardinality(InFlight) = 4
    /\ Held = 1
    /\ send_idx < N
    /\ N > 2 * (2 * num_workers)

\* The mask path the derivation rule gives for a manifest path.
DerivedMask(name) == DropLast4(PathJoin(MaskRoot, name)) \o MaskSuffix

\* C17: for each combination of source root and mask root given or absent
\* the loader leaves a usable dataset: with a mask root every filtered entry
\* has its derived mask path, also without a source root; without a mask
\* root the mask list is defined as absent; samples, labels and mask paths
\* have the same length and order.
C17_MasksDefined ==
    pc \notin {"start", "failed"} =>
        /\ Len(samples) = Cardinality(Survivors)
        /\ Len(targets) = Len(samples)
        /\ mask_source # None =>
             /\ masks.state = "list"
             /\ Len(masks.list) = Len(samples)
             /\ \A j \in 1..Len(samples) :
                  masks.list[j] = DerivedMask(image_list[NthSurvivor(j)][1])
        /\ mask_source = None => masks.state = "None"

\* A worker process has handed in a result.
WorkerStep == DOMAIN done' # DOMAIN done /\ DOMAIN done \subseteq DOMAIN done'

\* The step puts or commits something, or begins or ends a transaction.
StoreStep ==
    \/ store' # store
    \/ staged' # staged
    \/ txn_open' # txn_open
    \/ commit_log' # commit_log
    \/ put_log' # put_log

OneWriter ==
    /\ WorkerStep => ~StoreStep
    /\ txn_open' > txn_open =>
         /\ txn_open = 0
         /\ staged = <<>>
         /\ pc = "writing" => commit_log # <<>>
         /\ pc = "finalizing" => Len(commit_log) >= 2
    /\ (staged' # staged /\ staged' # <<>>) => txn_open = 1
    /\ commit_log' # commit_log => (txn_open = 1 /\ txn_open' = 0)
    /\ (pc' # pc /\ pc' \in {"synced", "closed"}) => (txn_open = 0 /\ txn_open' = 0)

OneTxn ==
    /\ txn_open \in {0, 1}
    /\ pc = "writing" => (txn_open = 0 <=> at = "begin")
    /\ pc = "finalizing" => (txn_open = 0 <=> at = "keys")
    /\ pc \in {"start", "loaded", "open", "flushing", "synced", "closed"}
         => txn_open = 0
    /\ txn_open = 0 => staged = <<>>

\* C18: at most one write transaction is open at any point; a transaction,
\* the metadata one included, is begun only after the one before it has
\* committed; puts and commits come from the writer and never from a worker;
\* none is open when the store is synced and closed.
C18_SingleWriter ==
    []OneTxn /\ [][OneWriter]_vars

\* Between a commit of the loop and the begin that follows it no write
\* transaction is open, while the workers hold results.
C18_Witness ==
    /\ pc = "writing"
    /\ at = "begin"
    /\ num_workers = 2
    /\ Len(commit_log) >= 2
    /\ InFlight # {}
    /\ txn_open = 0

====
